---- MODULE Spec2Model ----
(***************************************************************************)
(* Model of Mmani/embedding/geometry.py: graph_laplacian with its sparse   *)
(* and dense backends, affinity_matrix, fl_radius_neighbors_graph and the  *)
(* DistanceMatrix cache.                                                   *)
(*                                                                         *)
(* Conventions.  Node indices are 0-based as in the source; the parallel   *)
(* arrays row/col/data of a coo matrix are sequences.  A number is an      *)
(* exact fraction <<n, d>> with d >= 0 in lowest terms; d = 0 encodes the  *)
(* IEEE specials numpy produces on a division by zero: <<0,0>> is NaN,     *)
(* <<1,0>> is +inf, <<-1,0>> is -inf.  Python's None is the empty tuple.   *)
(***************************************************************************)
EXTENDS Integers, Sequences, FiniteSets, TLC

VARIABLES
    \* the arguments of one graph_laplacian call
    csgraph, normed, symmetrize, scaling_epps, renormalization_exponent,
    return_diag, return_lapsym,
    \* the arguments of one affinity_matrix / get_distance_matrix call
    distances, neighbors_radius, copy,
    \* what the call returned or raised, the backend graph_laplacian ran, and
    \* the position of the caller
    result, backend, pc,
    \* a DistanceMatrix object: self.neighbors_radius, self.distance_matrix
    self_neighbors_radius, self_distance_matrix,
    \* history of the DistanceMatrix object: the object as the last
    \* get_distance_matrix call found it, the call of distance_matrix() that
    \* call made (or None), the number of calls, and the neighbors_radius
    \* argument the cached matrix was built with
    before, build, calls, cached_radius

lapvars == <<csgraph, normed, symmetrize, scaling_epps,
             renormalization_exponent, return_diag, return_lapsym>>

affvars == <<distances, neighbors_radius, copy>>

dmvars == <<self_neighbors_radius, self_distance_matrix,
            before, build, calls, cached_radius>>

vars == <<lapvars, affvars, result, backend, pc, dmvars>>

(* ------------------------------ bounds --------------------------------- *)
\* number of stored triples in a sparse input
MaxNnz == 2
\* number of get_distance_matrix calls on one DistanceMatrix object
MaxCalls == 4
\* largest edge weight (and distance) drawn as an input
MaxWeight == 2

(* --------------------------- float arithmetic --------------------------- *)
Abs(n) == IF n < 0 THEN -n ELSE n

Sign(n) == IF n > 0 THEN 1 ELSE IF n < 0 THEN -1 ELSE 0

RECURSIVE GCD(_, _)
GCD(a, b) == IF b = 0 THEN a ELSE GCD(b, a % b)

Norm(n, d) ==
    IF d = 0 THEN <<Sign(n), 0>>
    ELSE LET s == IF d < 0 THEN -1 ELSE 1
             g == GCD(Abs(n), Abs(d))
         IN  <<(s * n) \div g, (s * d) \div g>>

\* Python's None
None == <<>>

Zero == <<0, 1>>
One == <<1, 1>>
NaN == <<0, 0>>

IsFinite(x) == x[2] # 0

\* x + y; inf + inf keeps its sign, inf - inf is NaN
Add(x, y) ==
    IF x[2] = 0 /\ y[2] = 0
    THEN (IF x = y THEN x ELSE NaN)
    ELSE Norm(x[1] * y[2] + y[1] * x[2], x[2] * y[2])

Neg(x) == <<-x[1], x[2]>>

Sub(x, y) == Add(x, Neg(y))

Mul(x, y) == Norm(x[1] * y[1], x[2] * y[2])

\* x / y as numpy divides floats: 0/0 is NaN, c/0 is +-inf, no exception
Div(x, y) == Norm(x[1] * y[2], x[2] * y[1])

\* x > 0.  (a comparison with NaN is False)
Positive(x) == x[1] > 0

\* x ** k for a natural exponent k (numpy: anything ** 0 is 1)
RECURSIVE Pow(_, _)
Pow(x, k) == IF k = 0 THEN One ELSE Mul(x, Pow(x, k - 1))

IsSquare(n) == \E r \in 0..n : r * r = n

ISqrt(n) == CHOOSE r \in 0..n : r * r = n

\* np.sqrt, exact on the fractions whose numerator and denominator are squares
SqrtExact(x) == x[1] >= 0 /\ IsSquare(x[1]) /\ IsSquare(x[2])

Sqrt(x) == IF x[1] < 0 THEN NaN ELSE <<ISqrt(x[1]), ISqrt(x[2])>>

RECURSIVE SumSeq(_)
SumSeq(s) == IF s = <<>> THEN Zero ELSE Add(Head(s), SumSeq(Tail(s)))

(* ------------------------------ strings --------------------------------- *)
\* A string is the tuple of its characters.
UpperToLower ==
    "A" :> "a" @@ "B" :> "b" @@ "C" :> "c" @@ "D" :> "d" @@ "E" :> "e" @@
    "F" :> "f" @@ "G" :> "g" @@ "H" :> "h" @@ "I" :> "i" @@ "J" :> "j" @@
    "K" :> "k" @@ "L" :> "l" @@ "M" :> "m" @@ "N" :> "n" @@ "O" :> "o" @@
    "P" :> "p" @@ "Q" :> "q" @@ "R" :> "r" @@ "S" :> "s" @@ "T" :> "t" @@
    "U" :> "u" @@ "V" :> "v" @@ "W" :> "w" @@ "X" :> "x" @@ "Y" :> "y" @@
    "Z" :> "z"

\* str.lower()
lower(s) ==
    [k \in DOMAIN s |->
        IF s[k] \in DOMAIN UpperToLower THEN UpperToLower[s[k]] ELSE s[k]]

unnormalized == <<"u","n","n","o","r","m","a","l","i","z","e","d">>
geometric == <<"g","e","o","m","e","t","r","i","c">>
randomwalk == <<"r","a","n","d","o","m","w","a","l","k">>
symmetricnormalized ==
    <<"s","y","m","m","e","t","r","i","c","n","o","r","m","a","l","i","z","e","d">>
renormalized == <<"r","e","n","o","r","m","a","l","i","z","e","d">>

\* the tuple of names line 191 tests membership in
NormedNames ==
    {unnormalized, geometric, randomwalk, symmetricnormalized, renormalized}

(* ------------------------- matrices and vectors ------------------------- *)
\* A scipy coo matrix: shape and the parallel arrays row, col, data.
\* A dense ndarray: shape and the entries a[i][j].
\* A vector (degrees, w, diag) is a function on 0..len-1.
coo_matrix(shape, row, col, data) ==
    [kind |-> "coo", shape |-> shape, row |-> row, col |-> col, data |-> data]

ndarray(shape, a) == [kind |-> "dense", shape |-> shape, a |-> a]

\* sparse.isspmatrix
isspmatrix(m) == m.kind = "coo"

Nodes(n) == 0..(n - 1)

Indices(m) == [k \in 1..Len(m.data) |-> k]

\* the stored values of m at position (i, j), in stored order
StoredAt(m, i, j) ==
    LET ks == SelectSeq(Indices(m), LAMBDA k : m.row[k] = i /\ m.col[k] = j)
    IN  [k \in 1..Len(ks) |-> m.data[ks[k]]]

\* the value a sparse matrix holds at (i, j): absent reads as 0
EntryAt(m, i, j) == SumSeq(StoredAt(m, i, j))

\* np.asarray(lap.sum(axis=1)).squeeze() on a sparse matrix
SparseRowSums(m) ==
    [i \in Nodes(m.shape[1]) |->
        LET ks == SelectSeq(Indices(m), LAMBDA k : m.row[k] = i)
        IN  SumSeq([k \in 1..Len(ks) |-> m.data[ks[k]]])]

\* np.asarray(lap.sum(axis=1)).squeeze() on a dense matrix
DenseRowSums(m) ==
    [i \in Nodes(m.shape[1]) |->
        SumSeq([k \in 1..m.shape[2] |-> m.a[i][k - 1]])]

\* the same values in dense form (todense): absent entries are 0
todense(m) ==
    ndarray(m.shape,
            [i \in Nodes(m.shape[1]) |->
                [j \in Nodes(m.shape[2]) |-> EntryAt(m, i, j)]])

\* entry (i, j) of a matrix of either kind
Entry(m, i, j) == IF isspmatrix(m) THEN EntryAt(m, i, j) ELSE m.a[i][j]

\* tocoo() / copy(): the triples of a coo matrix in their stored order
tocoo(m) == m

\* lapt: lap with the row and col arrays exchanged
swap_row_col(m) == [m EXCEPT !.row = m.col, !.col = m.row]

\* a + b on sparse matrices: the operands are converted to csr, the sum holds
\* one entry per position stored in a or b, in row-major order, and entries
\* whose sum is 0 are dropped
csr_add(a, b) ==
    LET n == a.shape[1]
        c == a.shape[2]
        all == [p \in 1..(n * c) |-> p - 1]
        pos == SelectSeq(all, LAMBDA p :
                   /\ \/ StoredAt(a, p \div c, p % c) # <<>>
                      \/ StoredAt(b, p \div c, p % c) # <<>>
                   /\ Add(EntryAt(a, p \div c, p % c),
                          EntryAt(b, p \div c, p % c)) # Zero)
    IN  coo_matrix(a.shape,
                   [k \in 1..Len(pos) |-> pos[k] \div c],
                   [k \in 1..Len(pos) |-> pos[k] % c],
                   [k \in 1..Len(pos) |->
                       Add(EntryAt(a, pos[k] \div c, pos[k] % c),
                           EntryAt(b, pos[k] \div c, pos[k] % c))])

\* lap.data /= x, lap.data *= x
data_div(m, x) == [m EXCEPT !.data = [k \in DOMAIN m.data |-> Div(m.data[k], x)]]

data_mul(m, x) == [m EXCEPT !.data = [k \in DOMAIN m.data |-> Mul(m.data[k], x)]]

\* diag_mask = (lap.row == lap.col)
diag_mask(m) == [k \in DOMAIN m.data |-> m.row[k] = m.col[k]]

\* the indices the mask selects, in stored order
masked(m) == SelectSeq(Indices(m), LAMBDA k : m.row[k] = m.col[k])

\* lap.data[diag_mask], as a vector
data_diag(m) ==
    LET ks == masked(m) IN [i \in Nodes(Len(ks)) |-> m.data[ks[i + 1]]]

\* lap.data[diag_mask] -= 1.
diag_minus_one(m) ==
    [m EXCEPT !.data =
        [k \in DOMAIN m.data |->
            IF diag_mask(m)[k] THEN Sub(m.data[k], One) ELSE m.data[k]]]

\* lap.data /= w[lap.row]
div_by_row(m, w) ==
    [m EXCEPT !.data = [k \in DOMAIN m.data |-> Div(m.data[k], w[m.row[k]])]]

\* lap.data /= w[lap.col]
div_by_col(m, w) ==
    [m EXCEPT !.data = [k \in DOMAIN m.data |-> Div(m.data[k], w[m.col[k]])]]

\* w_zeros = (w == 0); w[w_zeros] = 1
w_zeros(w) == [i \in DOMAIN w |-> w[i] = Zero]

ones_at_zeros(w) == [i \in DOMAIN w |-> IF w[i] = Zero THEN One ELSE w[i]]

(* ------------------------- _laplacian_sparse ---------------------------- *)
\* A backend's outcome: the exception raised ("none" when it returns) and the
\* returned value as a tuple, <<lap>> standing for the bare matrix.
Returned(ret) == [exc |-> "none", ret |-> ret]

Raised(exc) == [exc |-> exc, ret |-> <<>>]

\* lines 209-218: the optional symmetrization, then the coo form
sparse_symmetrized(csgraph_, symmetrize_) ==
    LET lap == tocoo(csgraph_)
    IN  IF symmetrize_
        THEN tocoo(data_div(csr_add(lap, swap_row_col(lap)), <<2, 1>>))
        ELSE tocoo(lap)

\* Each variant block yields the new lap, the names it binds (w, lapsym) and
\* whether the block raised.
Block(lap, w, lapsym, bound, exc) ==
    [lap |-> lap, w |-> w, lapsym |-> lapsym, bound |-> bound, exc |-> exc]

\* lines 222-228
sparse_symmetricnormalized(lap, degrees) ==
    LET w == ones_at_zeros([i \in DOMAIN degrees |-> Sqrt(degrees[i])])
    IN  Block(diag_minus_one(div_by_col(div_by_row(lap, w), w)),
              w, <<>>, {"w"}, "none")

\* lines 231-240 and 245-253: w is the stage-1 divisor before its zeros are
\* replaced
sparse_two_stage(lap, w0, return_lapsym_) ==
    LET w1 == ones_at_zeros(w0)
        lap1 == div_by_col(div_by_row(lap, w1), w1)
        w == SparseRowSums(lap1)
    IN  Block(diag_minus_one(div_by_row(lap1, w)),
              w,
              IF return_lapsym_ THEN lap1 ELSE <<>>,
              IF return_lapsym_ THEN {"w", "lapsym"} ELSE {"w"},
              "none")

\* line 256: lap.data[diag_mask] -= degrees pairs the m-th stored diagonal
\* entry with degrees[m]; the shapes must agree or numpy raises ValueError
sparse_unnormalized(lap, degrees) ==
    LET ks == masked(lap)
        rank(k) == Cardinality({m \in 1..Len(ks) : ks[m] < k})
    IN  IF Len(ks) # lap.shape[1]
        THEN Block(lap, <<>>, <<>>, {}, "ValueError")
        ELSE Block([lap EXCEPT !.data =
                       [k \in DOMAIN lap.data |->
                           IF diag_mask(lap)[k]
                           THEN Sub(lap.data[k], degrees[rank(k)])
                           ELSE lap.data[k]]],
                   <<>>, <<>>, {}, "none")

\* lines 258-259
sparse_randomwalk(lap, degrees) ==
    Block(diag_minus_one(div_by_row(lap, degrees)), <<>>, <<>>, {}, "none")

\* lines 222-259: the block the value of normed selects (none for a name
\* that matches no test)
sparse_variant(lap, normed_, degrees, renormalization_exponent_, return_lapsym_) ==
    CASE normed_ = symmetricnormalized -> sparse_symmetricnormalized(lap, degrees)
      [] normed_ = geometric -> sparse_two_stage(lap, degrees, return_lapsym_)
      [] normed_ = renormalized ->
            sparse_two_stage(lap,
                [i \in DOMAIN degrees |->
                    Pow(degrees[i], renormalization_exponent_)],
                return_lapsym_)
      [] normed_ = unnormalized -> sparse_unnormalized(lap, degrees)
      [] normed_ = randomwalk -> sparse_randomwalk(lap, degrees)
      [] OTHER -> Block(lap, <<>>, <<>>, {}, "none")

\* mutant of scaling_factor: 4/scaling_epps
scaling_factor_unsquared(scaling_epps_) == Div(<<4, 1>>, scaling_epps_)

\* 4/(scaling_epps**2)
scaling_factor(scaling_epps_) == Div(<<4, 1>>, Mul(scaling_epps_, scaling_epps_))

\* lines 260-261
sparse_scaled(lap, scaling_epps_) ==
    IF Positive(scaling_epps_)
    THEN data_mul(lap, scaling_factor(scaling_epps_))
    ELSE lap

\* lines 263-271: reading the unbound name lapsym raises UnboundLocalError
sparse_return(lap, b, return_diag_, return_lapsym_) ==
    IF return_lapsym_ /\ "lapsym" \notin b.bound
    THEN Raised("UnboundLocalError")
    ELSE IF return_diag_
         THEN IF return_lapsym_
              THEN Returned(<<lap, data_diag(lap), b.lapsym, b.w>>)
              ELSE Returned(<<lap, data_diag(lap)>>)
         ELSE IF return_lapsym_
              THEN Returned(<<lap, b.lapsym, b.w>>)
              ELSE Returned(<<lap>>)

laplacian_sparse(csgraph_, normed_, symmetrize_, scaling_epps_, renormalization_exponent_, return_diag_, return_lapsym_) ==
    LET lap == sparse_symmetrized(csgraph_, symmetrize_)
        degrees == SparseRowSums(lap)
        b == sparse_variant(lap, normed_, degrees,
                            renormalization_exponent_, return_lapsym_)
    IN  IF b.exc # "none"
        THEN Raised(b.exc)
        ELSE sparse_return(sparse_scaled(b.lap, scaling_epps_), b,
                           return_diag_, return_lapsym_)

(* -------------------------- _laplacian_dense ---------------------------- *)
\* line 276 / 278
dense_symmetrized(csgraph_, symmetrize_) ==
    IF symmetrize_
    THEN [csgraph_ EXCEPT !.a =
            [i \in DOMAIN csgraph_.a |->
                [j \in DOMAIN csgraph_.a[i] |->
                    Div(Add(csgraph_.a[i][j], csgraph_.a[j][i]), <<2, 1>>)]]]
    ELSE csgraph_

\* lap /= w: column j is divided by w[j]
dense_div_cols(m, w) ==
    [m EXCEPT !.a = [i \in DOMAIN m.a |->
                        [j \in DOMAIN m.a[i] |-> Div(m.a[i][j], w[j])]]]

\* lap /= w[:, np.newaxis]: row i is divided by w[i]
dense_div_rows(m, w) ==
    [m EXCEPT !.a = [i \in DOMAIN m.a |->
                        [j \in DOMAIN m.a[i] |-> Div(m.a[i][j], w[i])]]]

\* lap[di] -= v
dense_diag_minus(m, v) ==
    [m EXCEPT !.a = [i \in DOMAIN m.a |->
                        [j \in DOMAIN m.a[i] |->
                            IF i = j THEN Sub(m.a[i][j], v[i]) ELSE m.a[i][j]]]]

\* (1 - w_zeros).astype(lap.dtype)
one_minus(zeros) == [i \in DOMAIN zeros |-> IF zeros[i] THEN Zero ELSE One]

\* lines 283-289
dense_symmetricnormalized(lap, degrees) ==
    LET w0 == [i \in DOMAIN degrees |-> Sqrt(degrees[i])]
        w == ones_at_zeros(w0)
    IN  Block(dense_diag_minus(dense_div_rows(dense_div_cols(lap, w), w),
                               one_minus(w_zeros(w0))),
              w, <<>>, {"w"}, "none")

\* lines 291-300 and 302-312
dense_two_stage(lap, w0, return_lapsym_) ==
    LET w1 == ones_at_zeros(w0)
        lap1 == dense_div_rows(dense_div_cols(lap, w1), w1)
        w == DenseRowSums(lap1)
    IN  Block(dense_diag_minus(dense_div_rows(lap1, w), one_minus(w_zeros(w0))),
              w,
              IF return_lapsym_ THEN lap1 ELSE <<>>,
              IF return_lapsym_ THEN {"w", "lapsym"} ELSE {"w"},
              "none")

\* lines 314-315
dense_unnormalized(lap, degrees) ==
    Block(dense_diag_minus(lap, degrees), <<>>, <<>>, {}, "none")

\* mutant of dense_randomwalk: the identity is not subtracted
dense_randomwalk_no_eye(lap, degrees) ==
    Block(dense_div_rows(lap, degrees), <<>>, <<>>, {}, "none")

\* lines 317-318: lap -= np.eye(n)
dense_randomwalk(lap, degrees) ==
    Block(dense_diag_minus(dense_div_rows(lap, degrees),
                           [i \in DOMAIN degrees |-> One]),
          <<>>, <<>>, {}, "none")

\* lines 282-318
dense_variant(lap, normed_, degrees, renormalization_exponent_, return_lapsym_) ==
    CASE normed_ = symmetricnormalized -> dense_symmetricnormalized(lap, degrees)
      [] normed_ = geometric -> dense_two_stage(lap, degrees, return_lapsym_)
      [] normed_ = renormalized ->
            dense_two_stage(lap,
                [i \in DOMAIN degrees |->
                    Pow(degrees[i], renormalization_exponent_)],
                return_lapsym_)
      [] normed_ = unnormalized -> dense_unnormalized(lap, degrees)
      [] normed_ = randomwalk -> dense_randomwalk(lap, degrees)
      [] OTHER -> Block(lap, <<>>, <<>>, {}, "none")

\* lines 320-321
dense_scaled(lap, scaling_epps_) ==
    IF Positive(scaling_epps_)
    THEN [lap EXCEPT !.a =
            [i \in DOMAIN lap.a |->
                [j \in DOMAIN lap.a[i] |->
                    Mul(lap.a[i][j], scaling_factor(scaling_epps_))]]]
    ELSE lap

\* diag = np.array(lap[di])
dense_diag(lap) == [i \in DOMAIN lap.a |-> lap.a[i][i]]

\* lines 323-332
dense_return(lap, b, return_diag_, return_lapsym_) ==
    IF return_lapsym_ /\ "lapsym" \notin b.bound
    THEN Raised("UnboundLocalError")
    ELSE IF return_diag_
         THEN IF return_lapsym_
              THEN Returned(<<lap, dense_diag(lap), b.lapsym, b.w>>)
              ELSE Returned(<<lap, dense_diag(lap)>>)
         ELSE IF return_lapsym_
              THEN Returned(<<lap, b.lapsym, b.w>>)
              ELSE Returned(<<lap>>)

laplacian_dense(csgraph_, normed_, symmetrize_, scaling_epps_, renormalization_exponent_, return_diag_, return_lapsym_) ==
    LET lap == dense_symmetrized(csgraph_, symmetrize_)
        degrees == DenseRowSums(lap)
        b == dense_variant(lap, normed_, degrees,
                           renormalization_exponent_, return_lapsym_)
    IN  dense_return(dense_scaled(b.lap, scaling_epps_), b,
                     return_diag_, return_lapsym_)

(* ---------------------------- graph_laplacian --------------------------- *)
\* csgraph.ndim
ndim(m) == Len(m.shape)

\* mutant of invalid_parameter: normed is not tested
invalid_parameter_any_normed(csgraph_, normed_) ==
    \/ ndim(csgraph_) # 2
    \/ csgraph_.shape[1] # csgraph_.shape[2]

\* lines 187-192: the two checks made before anything is computed
invalid_parameter(csgraph_, normed_) ==
    \/ ndim(csgraph_) # 2
    \/ csgraph_.shape[1] # csgraph_.shape[2]
    \/ lower(normed_) \notin NormedNames

\* lines 196-200: the backend that runs
dispatch(csgraph_, normed_) ==
    IF invalid_parameter(csgraph_, normed_) THEN "none"
    ELSE IF isspmatrix(csgraph_) THEN "sparse" ELSE "dense"

\* lines 187-200.  The integer-to-float cast of lines 193-194 keeps every value;
\* the dense backend is called without return_lapsym, which is then its
\* default, False.
graph_laplacian(csgraph_, normed_, symmetrize_, scaling_epps_, renormalization_exponent_, return_diag_, return_lapsym_) ==
    IF invalid_parameter(csgraph_, normed_)
    THEN Raised("ValueError")
    ELSE IF isspmatrix(csgraph_)
         THEN laplacian_sparse(csgraph_, lower(normed_), symmetrize_,
                               scaling_epps_, renormalization_exponent_,
                               return_diag_, return_lapsym_)
         ELSE laplacian_dense(csgraph_, lower(normed_), symmetrize_,
                              scaling_epps_, renormalization_exponent_,
                              return_diag_, FALSE)

\* the values w[lap.row] / w[lap.col] that lap.data is divided by: one per
\* stored triple
row_divisors(lap, w) == {w[lap.row[k]] : k \in DOMAIN lap.data}

col_divisors(lap, w) == {w[lap.col[k]] : k \in DOMAIN lap.data}

\* lines 222-259: every divisor of every "/=" the selected sparse block runs
sparse_divisors(lap, normed_, degrees, renormalization_exponent_) ==
    LET guarded(w0) ==
            LET w1 == ones_at_zeros(w0)
            IN  row_divisors(lap, w1) \cup col_divisors(lap, w1)
        two_stage(w0) ==
            LET w1 == ones_at_zeros(w0)
                lap1 == div_by_col(div_by_row(lap, w1), w1)
            IN  guarded(w0) \cup row_divisors(lap1, SparseRowSums(lap1))
    IN  CASE normed_ = symmetricnormalized ->
                 guarded([i \in DOMAIN degrees |-> Sqrt(degrees[i])])
          [] normed_ = geometric -> two_stage(degrees)
          [] normed_ = renormalized ->
                 two_stage([i \in DOMAIN degrees |->
                               Pow(degrees[i], renormalization_exponent_)])
          [] normed_ = randomwalk -> row_divisors(lap, degrees)
          [] OTHER -> {}

\* lines 282-318: every divisor of every "/=" the selected dense block runs;
\* a dense division divides every row (or column) of the matrix
dense_divisors(lap, normed_, degrees, renormalization_exponent_) ==
    LET all(w) == {w[i] : i \in DOMAIN w}
        two_stage(w0) ==
            LET w1 == ones_at_zeros(w0)
                lap1 == dense_div_rows(dense_div_cols(lap, w1), w1)
            IN  all(w1) \cup all(DenseRowSums(lap1))
    IN  CASE normed_ = symmetricnormalized ->
                 all(ones_at_zeros([i \in DOMAIN degrees |-> Sqrt(degrees[i])]))
          [] normed_ = geometric -> two_stage(degrees)
          [] normed_ = renormalized ->
                 two_stage([i \in DOMAIN degrees |->
                               Pow(degrees[i], renormalization_exponent_)])
          [] normed_ = randomwalk -> all(degrees)
          [] OTHER -> {}

\* the divisors of one call of graph_laplacian (none when it is rejected)
divisors(csgraph_, normed_, symmetrize_, renormalization_exponent_) ==
    IF invalid_parameter(csgraph_, normed_)
    THEN {}
    ELSE IF isspmatrix(csgraph_)
         THEN LET lap == sparse_symmetrized(csgraph_, symmetrize_)
              IN  sparse_divisors(lap, lower(normed_), SparseRowSums(lap),
                                  renormalization_exponent_)
         ELSE LET lap == dense_symmetrized(csgraph_, symmetrize_)
              IN  dense_divisors(lap, lower(normed_), DenseRowSums(lap),
                                 renormalization_exponent_)

(* ------------------------------- inputs --------------------------------- *)
\* the shape of the square inputs
SquareShape == <<2, 2>>

Weights == {<<v, 1>> : v \in 0..MaxWeight}

Triples ==
    Nodes(SquareShape[1]) \X Nodes(SquareShape[2]) \X Weights

\* coo inputs: up to MaxNnz triples in any stored order, one per position
\* (an explicit 0.0 may be stored)
TripleLists ==
    UNION {{t \in [1..k -> Triples] :
               \A x, y \in 1..k :
                   x # y => <<t[x][1], t[x][2]>> # <<t[y][1], t[y][2]>>} :
           k \in 0..MaxNnz}

from_triples(shape, t) ==
    coo_matrix(shape,
               [k \in DOMAIN t |-> t[k][1]],
               [k \in DOMAIN t |-> t[k][2]],
               [k \in DOMAIN t |-> t[k][3]])

SparseInputs == {from_triples(SquareShape, t) : t \in TripleLists}

DenseInputs == {todense(m) : m \in SparseInputs}

\* inputs that are not square 2-D matrices: a sparse 2x3, a dense 2x3, a
\* dense vector and a dense 2x2x2 array (only the shape is read)
NonSquareInputs ==
    {coo_matrix(<<2, 3>>, <<>>, <<>>, <<>>),
     ndarray(<<2, 3>>, [i \in Nodes(2) |-> [j \in Nodes(3) |-> Zero]]),
     ndarray(<<2>>, [i \in Nodes(2) |-> Zero]),
     ndarray(<<2, 2, 2>>,
             [i \in Nodes(2) |-> [j \in Nodes(2) |-> [k \in Nodes(2) |-> Zero]]])}

bogus == <<"b","o","g","u","s">>
Geometric == <<"G","e","o","m","e","t","r","i","c">>

NormedInputs == NormedNames \cup {bogus, Geometric}

ScalingInputs == {Zero, <<1, 2>>}

ExponentInputs(normed_) ==
    IF lower(normed_) = renormalized THEN {1, 2} ELSE {1}

\* the degrees the backends compute for this input
input_degrees(csgraph_, symmetrize_) ==
    IF isspmatrix(csgraph_)
    THEN SparseRowSums(sparse_symmetrized(csgraph_, symmetrize_))
    ELSE DenseRowSums(dense_symmetrized(csgraph_, symmetrize_))

\* np.sqrt is modelled exactly: a symmetricnormalized call is drawn only on
\* inputs whose degrees have rational square roots
sqrt_representable(csgraph_, normed_, symmetrize_) ==
    (~invalid_parameter(csgraph_, normed_) /\ lower(normed_) = symmetricnormalized)
        => \A i \in Nodes(csgraph_.shape[1]) :
               SqrtExact(input_degrees(csgraph_, symmetrize_)[i])

(* ---------------------------- affinity_matrix --------------------------- *)
\* An affinity value is the mean of one or two exponentials, (e^x + e^y)/2,
\* held as the set {x, y} of its exponents: {x} is e^x itself.  Exponentials
\* of distinct rationals are linearly independent over the rationals, so two
\* such means are equal exactly when their exponent sets are.  A position a
\* sparse matrix does not store reads as 0, the empty set.
exp(x) == {x}

mean(u, v) == u \cup v

AbsentAffinity == {}

\* A.data**2; A.data/(-neighbors_radius**2); np.exp: lines 475-477, 483-485
heat_kernel(d, neighbors_radius_) ==
    exp(Div(Mul(d, d), Neg(Mul(neighbors_radius_, neighbors_radius_))))

\* lines 455-458 as the caller sees them: the symmetrized matrix is bound to
\* the function's own name A and nothing is returned, so the caller's matrix
\* is the one it passed
symmetrize_sparse(A) == A

\* line 487: (A + A.T)/2
symmetrize_dense(A) ==
    [A EXCEPT !.a = [i \in DOMAIN A.a |->
                        [j \in DOMAIN A.a[i] |-> mean(A.a[i][j], A.a[j][i])]]]

\* lines 470-491
affinity_matrix(distances_, neighbors_radius_, symmetrize_) ==
    IF ~Positive(neighbors_radius_)
    THEN Raised("ValueError")
    ELSE IF isspmatrix(distances_)
         THEN LET A == [distances_ EXCEPT !.data =
                          [k \in DOMAIN distances_.data |->
                              heat_kernel(distances_.data[k], neighbors_radius_)]]
              IN  Returned(<<IF symmetrize_ THEN symmetrize_sparse(A) ELSE A>>)
         ELSE LET A == [distances_ EXCEPT !.a =
                          [i \in DOMAIN distances_.a |->
                              [j \in DOMAIN distances_.a[i] |->
                                  heat_kernel(distances_.a[i][j],
                                              neighbors_radius_)]]]
              IN  Returned(<<IF symmetrize_ THEN symmetrize_dense(A) ELSE A>>)

\* entry (i, j) of an affinity matrix of either kind
AffinityAt(m, i, j) ==
    IF isspmatrix(m)
    THEN IF \E k \in DOMAIN m.data : m.row[k] = i /\ m.col[k] = j
         THEN m.data[CHOOSE k \in DOMAIN m.data : m.row[k] = i /\ m.col[k] = j]
         ELSE AbsentAffinity
    ELSE m.a[i][j]

RadiusInputs == {<<-1, 1>>, Zero, One, <<2, 1>>}

(* ------------- fl_radius_neighbors_graph, distance_matrix --------------- *)
\* the point cloud of the DistanceMatrix object: three points on a line, an
\* array of shape (3, 1)
X ==
    ndarray(<<3, 1>>,
            [i \in Nodes(3) |-> [j \in Nodes(1) |-> <<(<<0, 1, 3>>)[i + 1], 1>>]])

\* the distance of points i and j of a one-column point cloud
distance(X_, i, j) ==
    LET d == Sub(X_.a[i][0], X_.a[j][0]) IN <<Abs(d[1]), d[2]>>

\* flindex.nn_radius(X[i,:], radius): the indices (ascending) and distances
\* of the points within radius of point i
nn_radius(X_, i, radius) ==
    LET all == [k \in 1..X_.shape[1] |-> k - 1]
        jj == SelectSeq(all, LAMBDA j :
                  ~Positive(Sub(distance(X_, i, j), radius)))
    IN  [jj |-> jj, dd |-> [k \in DOMAIN jj |-> distance(X_, i, jj[k])]]

RECURSIVE concatenate(_)
concatenate(ss) == IF ss = <<>> THEN <<>> ELSE Head(ss) \o concatenate(Tail(ss))

\* x < 0.
Negative(x) == x[1] < 0

\* mutant of radius_rejected: radius 0 is rejected too
radius_rejected_at_zero(radius) == ~Positive(radius)

\* the radius check of line 384
radius_rejected(radius) == Negative(radius)

\* lines 384-401: the outcome and the number of index queries issued
fl_radius_neighbors_graph(X_, radius) ==
    IF radius_rejected(radius)
    THEN [exc |-> "ValueError", ret |-> <<>>, queries |-> 0]
    ELSE LET nsam == X_.shape[1]
             q == [i \in 1..nsam |-> nn_radius(X_, i - 1, radius)]
         IN  [exc |-> "none",
              ret |-> <<coo_matrix(<<nsam, nsam>>,
                          concatenate([i \in 1..nsam |->
                              [k \in DOMAIN q[i].jj |-> i - 1]]),
                          concatenate([i \in 1..nsam |-> q[i].jj]),
                          concatenate([i \in 1..nsam |-> q[i].dd]))>>,
              queries |-> nsam]

\* lines 342-349, mode 'radius_neighbors' with a FLANN index: the radius the
\* graph is built with and the builder's outcome
distance_matrix(X_, neighbors_radius_) ==
    LET radius == IF neighbors_radius_ # None
                  THEN neighbors_radius_
                  ELSE Div(One, <<X_.shape[2], 1>>)
    IN  [radius |-> radius] @@ fl_radius_neighbors_graph(X_, radius)

(* ---------------------- DistanceMatrix (the cache) ---------------------- *)
\* mutant of recomputes: a supplied radius is ignored once a matrix is cached
recomputes_without_cache(self_distance_matrix_, neighbors_radius_) ==
    self_distance_matrix_ = None

\* line 435: whether get_distance_matrix calls distance_matrix()
recomputes(self_distance_matrix_, neighbors_radius_) ==
    self_distance_matrix_ = None \/ neighbors_radius_ # None

\* lines 436-437: self.neighbors_radius after the call
stored_radius(self_neighbors_radius_, self_distance_matrix_, neighbors_radius_) ==
    IF recomputes(self_distance_matrix_, neighbors_radius_)
       /\ neighbors_radius_ # None
    THEN neighbors_radius_
    ELSE self_neighbors_radius_

\* lines 439-442: the returned matrix, and whether it is the cached object
\* itself or a copy of it
returned_matrix(m, copy_) == [matrix |-> m, is_copy |-> copy_]

(* ---------------------------- specification ----------------------------- *)
NoResult == Raised("not called")

\* the variables a specification does not use stay at Idle
Idle == <<>>

Init ==
    /\ csgraph \in SparseInputs \cup DenseInputs \cup NonSquareInputs
    /\ normed \in NormedInputs
    /\ symmetrize \in BOOLEAN
    /\ scaling_epps \in ScalingInputs
    /\ renormalization_exponent \in ExponentInputs(normed)
    /\ return_diag \in BOOLEAN
    /\ return_lapsym \in BOOLEAN
    /\ sqrt_representable(csgraph, normed, symmetrize)
    /\ result = NoResult
    /\ backend = "none"
    /\ pc = "call"
    /\ distances = Idle /\ neighbors_radius = Idle /\ copy = Idle
    /\ self_neighbors_radius = Idle /\ self_distance_matrix = Idle
    /\ before = Idle /\ build = Idle /\ calls = Idle /\ cached_radius = Idle

\* one call of graph_laplacian on the drawn arguments
GraphLaplacian ==
    /\ pc = "call"
    /\ result' = graph_laplacian(csgraph, normed, symmetrize, scaling_epps,
                                 renormalization_exponent, return_diag,
                                 return_lapsym)
    /\ backend' = dispatch(csgraph, normed)
    /\ pc' = "done"
    /\ UNCHANGED <<lapvars, affvars, dmvars>>

Next == GraphLaplacian

Spec == Init /\ [][Next]_vars

(* ------------------------ claims: graph_laplacian ----------------------- *)
Done == pc = "done"

\* the returned Laplacian
Lap == result.ret[1]

RowSum(m, i) == SumSeq([k \in 1..m.shape[2] |-> Entry(m, i, k - 1)])

\* the degrees of this call's (optionally symmetrized) adjacency matrix
Degrees == input_degrees(csgraph, symmetrize)

\* the call's adjacency matrix after the optional symmetrization
Adjacency ==
    IF isspmatrix(csgraph)
    THEN sparse_symmetrized(csgraph, symmetrize)
    ELSE dense_symmetrized(csgraph, symmetrize)

\* the result holds the diagonal position of node i
HoldsDiagonal(m, i) == isspmatrix(m) => StoredAt(m, i, i) # <<>>

DefaultFlags == ~return_diag /\ ~return_lapsym

\* C1: on the sparse form and on the dense form of the same values, with the
\* same normed, symmetrize, scaling_epps and renormalization_exponent,
\* graph_laplacian returns Laplacians equal at every position (i, j),
\* positions the sparse result does not store reading as 0.
SparseDenseAgree ==
    (Done /\ backend = "sparse" /\ DefaultFlags) =>
        LET dense == graph_laplacian(todense(csgraph), normed, symmetrize,
                                     scaling_epps, renormalization_exponent,
                                     return_diag, return_lapsym)
        IN  /\ result.exc = "none"
            /\ dense.exc = "none"
            /\ \A i, j \in Nodes(csgraph.shape[1]) :
                   EntryAt(Lap, i, j) = dense.ret[1].a[i][j]

UnnormalizedRowSumsZero ==
    (Done /\ backend # "none" /\ lower(normed) = unnormalized
     /\ ~return_lapsym) =>
        /\ result.exc = "none"
        /\ \A i \in Nodes(csgraph.shape[1]) : RowSum(Lap, i) = Zero

Undirected ==
    \A i, j \in Nodes(csgraph.shape[1]) :
        Entry(Adjacency, i, j) = Entry(Adjacency, j, i)

\* C6: with normed = 'symmetricnormalized', a node of degree 0 of an
\* undirected graph has an all-zero row and an all-zero column in the returned
\* Laplacian, its diagonal entry included, in both backends, also when the
\* sparse input stores an explicit diagonal entry for the node.
ZeroDegreeRowColumnZero ==
    (Done /\ backend # "none" /\ ~return_lapsym /\ Undirected
     /\ lower(normed) = symmetricnormalized) =>
        /\ result.exc = "none"
        /\ \A i \in Nodes(csgraph.shape[1]) :
               Degrees[i] = Zero =>
                   \A j \in Nodes(csgraph.shape[2]) :
                       Entry(Lap, i, j) = Zero /\ Entry(Lap, j, i) = Zero

\* C7: the flags decide the result's shape in both backends: the Laplacian
\* alone; with return_diag the Laplacian and its diagonal, diag[i] = L[i,i]
\* for every node; with return_lapsym and normed geometric or renormalized
\* also the symmetric companion and its row sums w.
ResultShape ==
    (Done /\ backend # "none" /\ result.exc # "ValueError") =>
        LET two_stage == lower(normed) \in {geometric, renormalized}
            n == csgraph.shape[1]
        IN  /\ (~return_lapsym \/ two_stage) => result.exc = "none"
            /\ (~return_diag /\ ~return_lapsym) => Len(result.ret) = 1
            /\ (return_diag /\ ~return_lapsym) =>
                   /\ Len(result.ret) = 2
                   /\ result.ret[2] = [i \in Nodes(n) |-> Entry(Lap, i, i)]
            /\ (return_lapsym /\ two_stage) =>
                   /\ Len(result.ret) = IF return_diag THEN 4 ELSE 3
                   /\ LET lapsym == result.ret[Len(result.ret) - 1]
                          w == result.ret[Len(result.ret)]
                      IN  /\ w = [i \in Nodes(n) |-> RowSum(lapsym, i)]
                          /\ return_diag =>
                                 result.ret[2] = [i \in Nodes(n) |-> Entry(Lap, i, i)]

Divisors == divisors(csgraph, normed, symmetrize, renormalization_exponent)

\* C11: in no variant and in neither backend does graph_laplacian divide by
\* 0: every divisor of every division step of the call is nonzero, no entry
\* of the returned Laplacian is NaN or infinite, and (without scaling) the
\* row and the column of a zero-degree node are returned as they were given.
NoDivisionByZero ==
    (Done /\ backend # "none") =>
        /\ Zero \notin Divisors
        /\ result.exc = "none" =>
               /\ \A i, j \in Nodes(csgraph.shape[1]) : IsFinite(Entry(Lap, i, j))
               /\ ~Positive(scaling_epps) =>
                      \A i \in Nodes(csgraph.shape[1]) :
                          Degrees[i] = Zero =>
                              \A j \in Nodes(csgraph.shape[2]) :
                                  /\ Entry(Lap, i, j) = Entry(Adjacency, i, j)
                                  /\ Entry(Lap, j, i) = Entry(Adjacency, j, i)

(* ------------------- specification: affinity_matrix --------------------- *)
InitAffinity ==
    /\ distances \in SparseInputs \cup DenseInputs
    /\ neighbors_radius \in RadiusInputs
    /\ symmetrize \in BOOLEAN
    /\ result = NoResult
    /\ pc = "call"
    /\ csgraph = Idle /\ normed = Idle /\ scaling_epps = Idle
    /\ renormalization_exponent = Idle /\ return_diag = Idle
    /\ return_lapsym = Idle /\ copy = Idle /\ backend = Idle
    /\ self_neighbors_radius = Idle /\ self_distance_matrix = Idle
    /\ before = Idle /\ build = Idle /\ calls = Idle /\ cached_radius = Idle

\* one call of affinity_matrix on the drawn arguments
AffinityMatrix ==
    /\ pc = "call"
    /\ result' = affinity_matrix(distances, neighbors_radius, symmetrize)
    /\ pc' = "done"
    /\ UNCHANGED <<lapvars, affvars, backend, dmvars>>

NextAffinity == AffinityMatrix

SpecAffinity == InitAffinity /\ [][NextAffinity]_vars

\* C2: called with symmetrize = True and a radius > 0, affinity_matrix returns
\* a matrix equal to its transpose, M[i,j] = M[j,i] for all i, j, whether the
\* distance graph is sparse or dense, symmetric or not.
AffinitySymmetric ==
    (Done /\ symmetrize /\ Positive(neighbors_radius)) =>
        /\ result.exc = "none"
        /\ \A i, j \in Nodes(distances.shape[1]) :
               AffinityAt(result.ret[1], i, j) = AffinityAt(result.ret[1], j, i)

(* ---------------- specification: the DistanceMatrix cache -------------- *)
\* DistanceMatrix(X, neighbors_radius = None or 1.0): lines 405-422
InitCache ==
    /\ self_neighbors_radius \in {None, One}
    /\ self_distance_matrix = None
    /\ before = None /\ build = None /\ calls = 0 /\ cached_radius = None
    /\ neighbors_radius = None /\ copy = TRUE
    /\ result = NoResult
    /\ pc = "idle"
    /\ csgraph = Idle /\ normed = Idle /\ symmetrize = Idle
    /\ scaling_epps = Idle /\ renormalization_exponent = Idle
    /\ return_diag = Idle /\ return_lapsym = Idle
    /\ distances = Idle /\ backend = Idle

\* one call self.get_distance_matrix(neighbors_radius, copy): lines 431-442
GetDistanceMatrix ==
    /\ calls < MaxCalls
    /\ \E r \in {None} \cup RadiusInputs, c \in BOOLEAN :
          LET nr == stored_radius(self_neighbors_radius, self_distance_matrix, r)
              b == distance_matrix(X, nr)
          IN  /\ neighbors_radius' = r
              /\ copy' = c
              /\ self_neighbors_radius' = nr
              /\ IF recomputes(self_distance_matrix, r)
                 THEN /\ build' = b
                      /\ IF b.exc = "none"
                         THEN /\ self_distance_matrix' = b.ret[1]
                              /\ cached_radius' = nr
                              /\ result' = Returned(<<returned_matrix(b.ret[1], c)>>)
                         ELSE /\ UNCHANGED <<self_distance_matrix, cached_radius>>
                              /\ result' = Raised(b.exc)
                 ELSE /\ build' = None
                      /\ UNCHANGED <<self_distance_matrix, cached_radius>>
                      /\ result' = Returned(<<returned_matrix(self_distance_matrix, c)>>)
    /\ before' = [neighbors_radius |-> self_neighbors_radius,
                  distance_matrix |-> self_distance_matrix,
                  cached_radius |-> cached_radius]
    /\ calls' = calls + 1
    /\ UNCHANGED <<lapvars, distances, backend, pc>>

NextCache == GetDistanceMatrix

SpecCache == InitCache /\ [][NextCache]_vars

\* the last call invoked the builder
Rebuilt == build # None

\* C8 as stated (the rule of recomputation): a call recomputes exactly when no
\* matrix is cached or a radius is supplied that differs from the stored one;
\* any other call leaves the builder alone and returns the cached matrix (or a
\* copy of it).
RecomputesOnlyOnNewRadius ==
    calls > 0 =>
        /\ Rebuilt <=>
               \/ before.distance_matrix = None
               \/ /\ neighbors_radius # None
                  /\ neighbors_radius # before.neighbors_radius
        /\ ~Rebuilt =>
               /\ self_distance_matrix = before.distance_matrix
               /\ result = Returned(<<returned_matrix(before.distance_matrix, copy)>>)

\* C8 amended: a call recomputes exactly when no matrix is cached or a radius
\* is supplied, equal to the stored one or not; any other call leaves the
\* builder alone and returns the cached matrix (or a copy); a build that
\* succeeds caches and returns the matrix built with the stored
\* neighbors_radius, and a build that fails (radius < 0) stores the supplied
\* radius and keeps the matrix cached before.
RecomputesOnAnyRadius ==
    calls > 0 =>
        /\ Rebuilt <=>
               \/ before.distance_matrix = None
               \/ neighbors_radius # None
        /\ ~Rebuilt =>
               /\ self_distance_matrix = before.distance_matrix
               /\ self_neighbors_radius = before.neighbors_radius
               /\ result = Returned(<<returned_matrix(before.distance_matrix, copy)>>)
        /\ (Rebuilt /\ result.exc = "none") =>
               /\ cached_radius = self_neighbors_radius
               /\ self_distance_matrix =
                      fl_radius_neighbors_graph(X,
                          IF self_neighbors_radius = None
                          THEN One ELSE self_neighbors_radius).ret[1]
               /\ result = Returned(<<returned_matrix(self_distance_matrix, copy)>>)
        /\ (Rebuilt /\ result.exc # "none") =>
               /\ self_distance_matrix = before.distance_matrix
               /\ cached_radius = before.cached_radius
               /\ neighbors_radius # None =>
                      self_neighbors_radius = neighbors_radius

\* C8 witness: the stored radius was supplied again while a matrix was cached,
\* and the matrix was built again
RebuiltOnSameRadius ==
    /\ calls > 0
    /\ before.distance_matrix # None
    /\ neighbors_radius # None
    /\ neighbors_radius = before.neighbors_radius
    /\ Rebuilt
    /\ result.exc = "none"

\* C9 as stated: the builder raises ValueError for every radius that is not
\* strictly positive, radius 0 included, before any index query.
RejectsNonPositiveRadius ==
    (Rebuilt /\ ~Positive(build.radius)) =>
        build.exc = "ValueError" /\ build.queries = 0

\* C9 amended: the builder raises ValueError for every radius < 0, before any
\* index query; radius 0 is accepted and the index is queried once per point.
RejectsNegativeRadius ==
    /\ (Rebuilt /\ Negative(build.radius)) =>
           build.exc = "ValueError" /\ build.queries = 0 /\ build.ret = <<>>
    /\ (Rebuilt /\ build.radius = Zero) =>
           build.exc = "none" /\ build.queries = X.shape[1]

\* C9 witness: a build with radius -1 was rejected
RejectedNegativeRadius ==
    /\ Rebuilt
    /\ build.radius = <<-1, 1>>
    /\ build.exc = "ValueError"
    /\ result.exc = "ValueError"

====
